---- MODULE Spec2Model ----
\* Model of the ToDo-app backend (src/index.js): an express server over three
\* mongoose collections (User, Project, Todo) with JWT bearer authentication.
\* Each HTTP request occupies a slot of `req`; a request advances one event-loop
\* step at a time (every `await` on the store or on bcrypt is a step boundary),
\* so the steps of concurrent requests interleave.
EXTENDS Integers, Sequences, FiniteSets, TLC

------------------------------------------------------------------------------
\* Bounds of the model.
MaxUsers == 2         \* User documents ever created
MaxProjects == 1      \* Project documents ever created
MaxTodos == 1         \* Todo documents ever created
MaxTokens == 2        \* tokens ever issued
MaxTime == 5000       \* last clock value (seconds)
TickStep == 2400      \* clock granularity (seconds)

\* Program constant: expiresIn: '1h' of jwt.sign, in seconds.
ExpiresIn == 3600

\* The request slots: two requests may be in flight at once.
Reqs == {1, 2}
Emails == {"a@x.com", "b@x.com"}
Passwords == {"pw1", "pw2"}
Names == {"Sprint1"}
Statuses == {"todo", "done"}

\* An absent string field / an absent id field of a JSON body or document.
NoStr == "<absent>"
NoId == -1
\* A path or body value that is no well-formed ObjectId.
BadId == 0

\* Ids the requests may name: malformed, allocated, or well-formed but never
\* allocated (one past the largest id the collection can hold); of the
\* projects, requests name the first.
ProjectIdInputs == {BadId, 1, MaxProjects + 1}
TodoIdInputs == 0..(MaxTodos + 1)

\* mongoose.Types.ObjectId.isValid (isValidAny: a check that lets every id
\* through, the fault the id-validation property must detect).
isValidAny(id) == TRUE
isValid(id) == id >= 1

------------------------------------------------------------------------------
\* bcryptjs: hash is one-way, compare checks a plaintext against a hash.
bcryptHash(pw) == <<"$2a$10$", pw>>
bcryptCompare(pw, hash) == hash = bcryptHash(pw)

\* jsonwebtoken: a token is its payload together with whether its signature
\* verifies under JWT_SECRET.
NoToken == [kind |-> "none", id |-> NoId, iat |-> 0, exp |-> 0]
BadToken == [kind |-> "bad", id |-> NoId, iat |-> 0, exp |-> 0]
jwtSign(id, t) == [kind |-> "jwt", id |-> id, iat |-> t, exp |-> t + ExpiresIn]
\* jwt.verify throws once the clock has reached exp (jwtVerifyExpiredToo: a
\* verify that ignores the expiry, the fault the lifetime property must detect).
jwtVerifyExpiredToo(tk, t) == tk.kind = "jwt"
jwtVerify(tk, t) == tk.kind = "jwt" /\ t < tk.exp

\* A token signed with JWT_SECRET whose user id is in no User document (the
\* secret is process configuration and outlives the contents of the database).
StaleToken == [kind |-> "jwt", id |-> MaxUsers + 1, iat |-> 0, exp |-> MaxTime + TickStep]

------------------------------------------------------------------------------
VARIABLES
    users,        \* User collection: sequence of [email, password]; _id = index
    projects,     \* Project collection: sequence of [name, user]; _id = index
    todos,        \* Todo collection: function _id -> document
    todoSeq,      \* number of Todo _ids allocated so far
    now,          \* wall clock, seconds
    issued,       \* tokens returned to clients so far
    req,          \* the request slots
    projCreator,  \* history: actor of the request that created each project
    todoCreator,  \* history: actor of the request that created each stored todo
    regLog,       \* history: per email, statuses of the first two register
                  \* requests to finish
    lastCreated   \* history: what the latest write to the Todo collection created

vars == <<users, projects, todos, todoSeq, now, issued, req,
          projCreator, todoCreator, regLog, lastCreated>>

store == <<users, projects, todos, todoSeq>>
hist == <<projCreator, todoCreator, regLog, lastCreated>>

NoBody == [name |-> NoStr, title |-> NoStr, description |-> NoStr, priority |-> NoStr,
           status |-> NoStr, project |-> NoId, user |-> NoId]

\* A slot: the request (op, token, email, password), its position (pc), its
\* locals (user = req.user or the user found, hashed), and its response
\* (status, msg, docs, out = the token returned; handled = a route handler ran).
Idle == [op |-> "none", pc |-> "idle", token |-> NoToken, user |-> NoId,
         email |-> NoStr, password |-> NoStr, hashed |-> <<>>, status |-> 0,
         msg |-> "", docs |-> {}, out |-> NoToken, handled |-> FALSE]

\* No todo was created by the latest write to the Todo collection.
NoCreate == [id |-> 0, body |-> NoBody, project |-> NoId, user |-> NoId]

Free(r) == req[r].pc \in {"idle", "done"}

\* The response of request r; the request's inputs and locals go out of scope.
Respond(r, op, user, status, msg, docs, out, handled) ==
    [Idle EXCEPT !.op = op, !.pc = "done", !.token = req[r].token,
                 !.user = user, !.status = status, !.msg = msg, !.docs = docs,
                 !.out = out, !.handled = handled]

Init ==
    /\ users = <<>>
    /\ projects = <<>>
    /\ todos = <<>>
    /\ todoSeq = 0
    /\ now = 0
    /\ issued = {}
    /\ req = [r \in Reqs |-> Idle]
    /\ projCreator = <<>>
    /\ todoCreator = <<>>
    /\ regLog = [e \in Emails |-> <<>>]
    /\ lastCreated = NoCreate

\* Time passes.
Tick ==
    /\ now + TickStep <= MaxTime
    /\ now' = now + TickStep
    /\ UNCHANGED <<store, issued, req, hist>>

------------------------------------------------------------------------------
\* User collection.
UserFindOne(us, email) ==
    IF \E i \in 1..Len(us) : us[i].email = email
    THEN CHOOSE i \in 1..Len(us) : us[i].email = email
    ELSE NoId
UserFindById(us, id) == IF id \in 1..Len(us) THEN id ELSE NoId
\* The unique index on email (UserSchema, unique: true) rejects a duplicate
\* (UniqueIndexNone: a collection without the index).
UniqueIndexNone(us, email) == TRUE
UniqueIndexOk(us, email) == \A i \in 1..Len(us) : us[i].email # email

\* regLog after a register request for `email` finished with `status`.
Logged(email, status) ==
    IF Len(regLog[email]) < 2
    THEN [regLog EXCEPT ![email] = Append(@, status)]
    ELSE regLog

\* Tokens issued, plus the requests in flight that are handed one when they
\* succeed; register and login requests are taken while it is below MaxTokens.
TokenBudget ==
    Cardinality(issued)
      + Cardinality({r \in Reqs : req[r].op \in {"register", "login"} /\ ~Free(r)})

\* POST /register, up to `await User.findOne({ email })`.
Register_findOne(r, email, password) ==
    /\ Free(r)
    /\ TokenBudget < MaxTokens
    /\ IF UserFindOne(users, email) # NoId
       THEN /\ req' = [req EXCEPT ![r] =
                  [Respond(r, "register", NoId, 400, "Email already exists",
                           {}, NoToken, TRUE)
                     EXCEPT !.email = email, !.token = NoToken]]
            /\ regLog' = Logged(email, 400)
       ELSE /\ req' = [req EXCEPT ![r] =
                  [Idle EXCEPT !.op = "register", !.pc = "hash",
                               !.email = email, !.password = password]]
            /\ UNCHANGED regLog
    /\ UNCHANGED <<store, now, issued, projCreator, todoCreator, lastCreated>>

\* POST /register: `await bcrypt.hash(password, 10)`.
Register_hash(r) ==
    /\ req[r].op = "register" /\ req[r].pc = "hash"
    /\ req' = [req EXCEPT ![r].pc = "create",
                          ![r].hashed = bcryptHash(req[r].password)]
    /\ UNCHANGED <<store, now, issued, hist>>

\* POST /register: `await User.create(...)`, jwt.sign and the response; a
\* rejected create throws into the catch block (500).
Register_create(r) ==
    /\ req[r].op = "register" /\ req[r].pc = "create"
    /\ UniqueIndexOk(users, req[r].email) => Len(users) < MaxUsers
    /\ IF UniqueIndexOk(users, req[r].email)
       THEN LET newId == Len(users) + 1
                token == jwtSign(newId, now)
            IN /\ users' = Append(users, [email |-> req[r].email,
                                          password |-> req[r].hashed])
               /\ issued' = issued \cup {token}
               /\ req' = [req EXCEPT ![r] =
                     [Respond(r, "register", newId, 201, "", {}, token, TRUE)
                        EXCEPT !.email = req[r].email]]
               /\ regLog' = Logged(req[r].email, 201)
       ELSE /\ req' = [req EXCEPT ![r] =
                     [Respond(r, "register", NoId, 500, "Error registering user",
                              {}, NoToken, TRUE) EXCEPT !.email = req[r].email]]
            /\ regLog' = Logged(req[r].email, 500)
            /\ UNCHANGED <<users, issued>>
    /\ UNCHANGED <<projects, todos, todoSeq, now, projCreator, todoCreator, lastCreated>>

\* POST /login, up to `await User.findOne({ email })`.
Login_findOne(r, email, password) ==
    /\ Free(r)
    /\ TokenBudget < MaxTokens
    /\ LET u == UserFindOne(users, email)
       IN IF u = NoId
          THEN req' = [req EXCEPT ![r] =
                  [Respond(r, "login", NoId, 404, "User not found",
                           {}, NoToken, TRUE)
                     EXCEPT !.email = email, !.token = NoToken]]
          ELSE req' = [req EXCEPT ![r] =
                  [Idle EXCEPT !.op = "login", !.pc = "compare",
                               !.email = email, !.password = password,
                               !.user = u, !.hashed = users[u].password]]
    /\ UNCHANGED <<store, now, issued, hist>>

\* POST /login: `await bcrypt.compare(...)`, jwt.sign and the response.
Login_compare(r) ==
    /\ req[r].op = "login" /\ req[r].pc = "compare"
    /\ IF bcryptCompare(req[r].password, req[r].hashed)
       THEN LET token == jwtSign(req[r].user, now)
            IN /\ issued' = issued \cup {token}
               /\ req' = [req EXCEPT ![r] =
                     [Respond(r, "login", req[r].user, 200, "", {}, token, TRUE)
                        EXCEPT !.email = req[r].email]]
       ELSE /\ req' = [req EXCEPT ![r] =
                     [Respond(r, "login", NoId, 400, "Invalid credentials",
                              {}, NoToken, TRUE) EXCEPT !.email = req[r].email]]
            /\ UNCHANGED issued
    /\ UNCHANGED <<store, now, hist>>

------------------------------------------------------------------------------
\* Documents as the API returns them.
ProjectDoc(ps, i) == [id |-> i, name |-> ps[i].name, user |-> ps[i].user]
TodoDoc(ts, i) ==
    [id |-> i, title |-> ts[i].title, description |-> ts[i].description,
     priority |-> ts[i].priority, status |-> ts[i].status,
     project |-> ts[i].project, user |-> ts[i].user]

\* Project.find({ user }) (ProjectFindAll: a find without the filter).
ProjectFindAll(ps, uid) == {ProjectDoc(ps, i) : i \in 1..Len(ps)}
ProjectFind(ps, uid) == {ProjectDoc(ps, i) : i \in {j \in 1..Len(ps) : ps[j].user = uid}}

\* Todo.find({ project, user })
TodoFind(ts, pid, uid) ==
    {TodoDoc(ts, i) : i \in {j \in DOMAIN ts : ts[j].project = pid /\ ts[j].user = uid}}

\* The document Todo.create stores for POST /todos/:projectId
\* (NewTodoNoDescription: a create that drops the optional field).
NewTodoNoDescription(body, pid, uid) ==
    [title |-> body.title, description |-> NoStr, priority |-> body.priority,
     status |-> body.status, project |-> pid, user |-> uid]
NewTodo(body, pid, uid) ==
    [title |-> body.title, description |-> body.description,
     priority |-> body.priority, status |-> body.status,
     project |-> pid, user |-> uid]

\* findByIdAndUpdate(todoId, req.body): every schema path present in the body
\* is set, `project` and `user` included.
Patched(old, new, absent) == IF new = absent THEN old ELSE new
ApplyUpdate(doc, body) ==
    [title |-> Patched(doc.title, body.title, NoStr),
     description |-> Patched(doc.description, body.description, NoStr),
     priority |-> Patched(doc.priority, body.priority, NoStr),
     status |-> Patched(doc.status, body.status, NoStr),
     project |-> Patched(doc.project, body.project, NoId),
     user |-> Patched(doc.user, body.user, NoId)]
\* Casting the update to the schema fails on an ObjectId path that is given a
\* value that is no ObjectId; mongoose throws before it queries the store.
CastOk(body) == body.project # BadId /\ body.user # BadId

\* The two accounts of the store specification.
Registered == <<[email |-> "a@x.com", password |-> bcryptHash("pw1")],
                [email |-> "b@x.com", password |-> bcryptHash("pw2")]>>

\* Request bodies.
CreateBodies ==
    {[NoBody EXCEPT !.title = "Write spec", !.priority = "Low", !.status = "todo"],
     [NoBody EXCEPT !.title = "Review", !.description = "d1",
                    !.priority = "High", !.status = "done"]}
PatchBodies ==
    {NoBody}
      \cup {[NoBody EXCEPT !.status = st] : st \in Statuses}
      \cup {[NoBody EXCEPT !.project = p] : p \in {BadId, MaxProjects + 1}}
      \cup {[NoBody EXCEPT !.user = u] : u \in DOMAIN Registered}

\* The six bearer-protected routes.
Routes == {"GET /projects", "POST /projects", "GET /todos", "POST /todos",
           "DELETE /todos", "PATCH /todos"}

InFlight(op) == Cardinality({r \in Reqs : req[r].op = op /\ ~Free(r)})

\* What authMiddleware answers for a token: a status, or 0 for next()
\* (AuthStatusLax: a gate that does not look the user up).
AuthStatusLax(tk, us, t) ==
    IF tk = NoToken THEN 401
    ELSE IF ~jwtVerify(tk, t) THEN 401
    ELSE 0
AuthStatus(tk, us, t) ==
    IF tk = NoToken THEN 401
    ELSE IF ~jwtVerify(tk, t) THEN 401
    ELSE IF UserFindById(us, tk.id) = NoId THEN 404
    ELSE 0
AuthMessage(tk, us, t) ==
    IF tk = NoToken THEN "No token, authorization denied"
    ELSE IF ~jwtVerify(tk, t) THEN "Token is not valid"
    ELSE "User not found"

\* A request to a protected route arrives and runs authMiddleware: on success
\* req.user is attached and next() hands the request to the route handler.
\* (A creating request is let through while its collection has room.)
authMiddleware(r, op, tk) ==
    /\ Free(r)
    /\ AuthStatus(tk, users, now) = 0 /\ op = "POST /projects" =>
           Len(projects) + InFlight(op) < MaxProjects
    /\ AuthStatus(tk, users, now) = 0 /\ op = "POST /todos" =>
           todoSeq + InFlight(op) < MaxTodos
    /\ IF AuthStatus(tk, users, now) # 0
       THEN req' = [req EXCEPT ![r] =
                [Respond(r, op, NoId, AuthStatus(tk, users, now),
                         AuthMessage(tk, users, now), {}, NoToken, FALSE)
                   EXCEPT !.token = tk]]
       ELSE req' = [req EXCEPT ![r] =
                [Idle EXCEPT !.op = op, !.pc = "next", !.token = tk,
                             !.user = UserFindById(users, tk.id)]]
    /\ UNCHANGED <<store, now, issued, hist>>

\* What a client may put in the Authorization header.
Presentable == {NoToken, BadToken, StaleToken} \cup issued

AtHandler(r, op) == req[r].op = op /\ req[r].pc = "next"

\* GET /projects
GetProjects(r) ==
    /\ AtHandler(r, "GET /projects")
    /\ req' = [req EXCEPT ![r] =
          Respond(r, req[r].op, req[r].user, 200, "",
                  ProjectFind(projects, req[r].user), NoToken, TRUE)]
    /\ UNCHANGED <<store, now, issued, hist>>

\* POST /projects
PostProjects(r, name) ==
    /\ AtHandler(r, "POST /projects")
    /\ projects' = Append(projects, [name |-> name, user |-> req[r].user])
    /\ projCreator' = Append(projCreator, req[r].user)
    /\ req' = [req EXCEPT ![r] =
          Respond(r, req[r].op, req[r].user, 201, "",
                  {ProjectDoc(projects', Len(projects'))}, NoToken, TRUE)]
    /\ UNCHANGED <<users, todos, todoSeq, now, issued, todoCreator, regLog, lastCreated>>

\* GET /todos/:projectId; a projectId that is no ObjectId fails the query cast.
GetTodos(r, projectId) ==
    /\ AtHandler(r, "GET /todos")
    /\ IF ~isValid(projectId)
       THEN req' = [req EXCEPT ![r] =
                Respond(r, req[r].op, req[r].user, 500, "Error fetching todos",
                        {}, NoToken, TRUE)]
       ELSE req' = [req EXCEPT ![r] =
                Respond(r, req[r].op, req[r].user, 200, "",
                        TodoFind(todos, projectId, req[r].user), NoToken, TRUE)]
    /\ UNCHANGED <<store, now, issued, hist>>

\* POST /todos/:projectId; a projectId that is no ObjectId fails validation.
PostTodos(r, projectId, body) ==
    /\ AtHandler(r, "POST /todos")
    /\ IF ~isValid(projectId)
       THEN /\ req' = [req EXCEPT ![r] =
                   Respond(r, req[r].op, req[r].user, 500, "Error creating todo",
                           {}, NoToken, TRUE)]
            /\ UNCHANGED <<todos, todoSeq, todoCreator, lastCreated>>
       ELSE LET newId == todoSeq + 1
            IN /\ todos' = todos @@ (newId :> NewTodo(body, projectId, req[r].user))
               /\ todoSeq' = newId
               /\ todoCreator' = todoCreator @@ (newId :> req[r].user)
               /\ lastCreated' = [id |-> newId, body |-> body, project |-> projectId,
                                   user |-> req[r].user]
               /\ req' = [req EXCEPT ![r] =
                     Respond(r, req[r].op, req[r].user, 201, "",
                             {TodoDoc(todos', newId)}, NoToken, TRUE)]
    /\ UNCHANGED <<users, projects, now, issued, projCreator, regLog>>

\* DELETE /todos/:id
DeleteTodos(r, todoId) ==
    /\ AtHandler(r, "DELETE /todos")
    /\ IF ~isValid(todoId)
       THEN /\ req' = [req EXCEPT ![r] =
                   Respond(r, req[r].op, req[r].user, 400, "Invalid todo ID",
                           {}, NoToken, TRUE)]
            /\ UNCHANGED <<todos, lastCreated>>
       ELSE IF todoId \notin DOMAIN todos
       THEN /\ req' = [req EXCEPT ![r] =
                   Respond(r, req[r].op, req[r].user, 404, "Todo not found",
                           {}, NoToken, TRUE)]
            /\ UNCHANGED <<todos, lastCreated>>
       ELSE /\ todos' = [i \in DOMAIN todos \ {todoId} |-> todos[i]]
            /\ lastCreated' = NoCreate
            /\ req' = [req EXCEPT ![r] =
                   Respond(r, req[r].op, req[r].user, 200, "Todo deleted",
                           {TodoDoc(todos, todoId)}, NoToken, TRUE)]
    /\ todoCreator' = [i \in DOMAIN todos' |-> todoCreator[i]]
    /\ UNCHANGED <<users, projects, todoSeq, now, issued, projCreator,
                   regLog>>

\* PATCH /todos/:id
PatchTodos(r, todoId, body) ==
    /\ AtHandler(r, "PATCH /todos")
    /\ IF ~isValid(todoId)
       THEN /\ req' = [req EXCEPT ![r] =
                   Respond(r, req[r].op, req[r].user, 400, "Invalid todo ID",
                           {}, NoToken, TRUE)]
            /\ UNCHANGED <<todos, lastCreated>>
       ELSE IF ~CastOk(body)
       THEN /\ req' = [req EXCEPT ![r] =
                   Respond(r, req[r].op, req[r].user, 500, "Error updating todo",
                           {}, NoToken, TRUE)]
            /\ UNCHANGED <<todos, lastCreated>>
       ELSE IF todoId \notin DOMAIN todos
       THEN /\ req' = [req EXCEPT ![r] =
                   Respond(r, req[r].op, req[r].user, 404, "Todo not found",
                           {}, NoToken, TRUE)]
            /\ UNCHANGED <<todos, lastCreated>>
       ELSE /\ todos' = [todos EXCEPT ![todoId] = ApplyUpdate(@, body)]
            /\ lastCreated' = NoCreate
            /\ req' = [req EXCEPT ![r] =
                   Respond(r, req[r].op, req[r].user, 200, "Todo updated",
                           {TodoDoc(todos', todoId)}, NoToken, TRUE)]
    /\ UNCHANGED <<users, projects, todoSeq, now, issued, projCreator,
                   todoCreator, regLog>>

------------------------------------------------------------------------------
\* The account system: registration, login, the clock and the Auth Gate in front
\* of one protected route, from the state after construction.
AuthRoutes == {"GET /projects"}

NextAuth ==
    \/ Tick
    \/ \E r \in Reqs, e \in Emails, p \in Passwords : Register_findOne(r, e, p)
    \/ \E r \in Reqs : Register_hash(r)
    \/ \E r \in Reqs : Register_create(r)
    \/ \E r \in Reqs, e \in Emails, p \in Passwords : Login_findOne(r, e, p)
    \/ \E r \in Reqs : Login_compare(r)
    \/ \E r \in Reqs, op \in AuthRoutes, tk \in Presentable :
          authMiddleware(r, op, tk)
    \/ \E r \in Reqs : GetProjects(r)

SpecAuth == Init /\ [][NextAuth]_vars

\* The resource store behind the Auth Gate, from the state in which both
\* accounts have just registered (at time 0) and hold their tokens.
InitStore ==
    /\ users = Registered
    /\ projects = <<>>
    /\ todos = <<>>
    /\ todoSeq = 0
    /\ now = 0
    /\ issued = {jwtSign(1, 0), jwtSign(2, 0)}
    /\ req = [r \in Reqs |->
                [Idle EXCEPT !.op = "register", !.pc = "done", !.user = r,
                             !.email = Registered[r].email, !.status = 201,
                             !.out = jwtSign(r, 0), !.handled = TRUE]]
    /\ projCreator = <<>>
    /\ todoCreator = <<>>
    /\ regLog = [e \in Emails |-> <<201>>]
    /\ lastCreated = NoCreate

\* Each handler issues one store operation, which the store applies atomically,
\* and the user authMiddleware resolved is never deleted: concurrent requests
\* act on the store in some serial order, which one slot produces.
StoreReqs == {1}

NextStore ==
    \/ \E r \in StoreReqs, op \in Routes, tk \in Presentable :
          authMiddleware(r, op, tk)
    \/ \E r \in StoreReqs : GetProjects(r)
    \/ \E r \in StoreReqs, name \in Names : PostProjects(r, name)
    \/ \E r \in StoreReqs, projectId \in ProjectIdInputs : GetTodos(r, projectId)
    \/ \E r \in StoreReqs, projectId \in ProjectIdInputs, body \in CreateBodies :
          PostTodos(r, projectId, body)
    \/ \E r \in StoreReqs, todoId \in TodoIdInputs : DeleteTodos(r, todoId)
    \/ \E r \in StoreReqs, todoId \in TodoIdInputs, body \in PatchBodies :
          PatchTodos(r, todoId, body)

SpecStore == InitStore /\ [][NextStore]_vars

------------------------------------------------------------------------------
\* Steps and responses the properties speak about.
Responded(r) == req[r].pc # "done" /\ req'[r].pc = "done"
\* A request to a protected route arrived in slot r (authMiddleware ran).
Arrived(r) == Free(r) /\ req'[r] # req[r] /\ req'[r].op \in Routes
Rejected(r, status, msg) ==
    /\ req'[r].pc = "done" /\ req'[r].status = status /\ req'[r].msg = msg
    /\ ~req'[r].handled
    /\ <<projects, todos, users>>' = <<projects, todos, users>>
Done(r, op, status) ==
    req[r].pc = "done" /\ req[r].op = op /\ req[r].status = status
------------------------------------------------------------------------------
\* C1: a Todo is changed or removed only by a PATCH or DELETE request whose
\* authenticated actor is the Todo's owner (the `user` stored on it).
C1_OnlyOwnerMutates ==
    [][\A t \in DOMAIN todos :
          (t \notin DOMAIN todos' \/ todos'[t] # todos[t]) =>
              \E r \in Reqs : /\ req[r].pc = "next"
                               /\ req[r].op \in {"PATCH /todos", "DELETE /todos"}
                               /\ req[r].user = todos[t].user]_vars

\* C2: the User collection never holds two documents with the same email,
\* whatever the interleaving of the steps of the register requests.
C2_UniqueEmail ==
    \A i, j \in 1..Len(users) : users[i].email = users[j].email => i = j

\* Two register requests for one email both passed the lookup; the create of
\* the later one was rejected by the unique index.
C2_Witness ==
    \E e \in Emails :
        /\ \E i \in 1..Len(regLog[e]) : regLog[e][i] = 201
        /\ \E i \in 1..Len(regLog[e]) : regLog[e][i] = 500
        /\ \E u \in 1..Len(users) : users[u].email = e

\* C7: of the first two register requests that carry one email, exactly one
\* succeeds (201) and the other fails with DuplicateEmail (400).
C7_ExactlyOneRegisters ==
    \A e \in Emails :
        Len(regLog[e]) >= 2 =>
            \/ regLog[e][1] = 201 /\ regLog[e][2] = 400
            \/ regLog[e][1] = 400 /\ regLog[e][2] = 201
\* C3: listProjects(actor) returns exactly the stored projects that the actor
\* created, so no project created by A is in the result of listProjects(B).
C3_ListProjectsIsolation ==
    [][\A r \in Reqs :
          AtHandler(r, "GET /projects") /\ Responded(r) =>
              /\ req'[r].status = 200
              /\ req'[r].docs =
                    {ProjectDoc(projects, i) :
                        i \in {j \in 1..Len(projects) : projCreator[j] = req[r].user}}]_vars

\* B listed its projects while a project created by A was stored.
C3_Witness ==
    \E r \in Reqs :
        /\ Done(r, "GET /projects", 200)
        /\ \E j \in 1..Len(projects) : projCreator[j] # req[r].user
        /\ \A d \in req[r].docs : projCreator[d.id] = req[r].user

\* C4: every stored Todo references a stored Project whose owner is the
\* Todo's owner.
C4_TodoMatchesProject ==
    \A t \in DOMAIN todos :
        /\ todos[t].project \in 1..Len(projects)
        /\ projects[todos[t].project].user = todos[t].user

\* C6: a Todo created by A is never in the result of listTodos(B, p), B # A.
C6_ListTodosIsolation ==
    \A r \in Reqs :
        Done(r, "GET /todos", 200) =>
            \A d \in req[r].docs :
                d.id \in DOMAIN todoCreator => todoCreator[d.id] = req[r].user
\* C5: on a protected route the handler runs, and the project/todo store is
\* touched, only for a request the Auth Gate accepted and gave a stored User;
\* no token is answered 401, a token that fails verification 401, a verified
\* token of no stored User 404, each without running the handler or changing
\* the store.
C5_GateBeforeStore ==
    [][/\ \A r \in Reqs :
             Arrived(r) =>
                 LET tk == req'[r].token
                     verified == tk.kind = "jwt" /\ now < tk.exp
                 IN /\ tk = NoToken =>
                           Rejected(r, 401, "No token, authorization denied")
                    /\ tk # NoToken /\ ~verified =>
                           Rejected(r, 401, "Token is not valid")
                    /\ verified /\ tk.id \notin 1..Len(users) =>
                           Rejected(r, 404, "User not found")
                    /\ verified /\ tk.id \in 1..Len(users) =>
                           req'[r].pc = "next" /\ req'[r].user = tk.id
       /\ \A r \in Reqs :
             req[r].op \in Routes /\ req'[r].op \in Routes
               /\ ~req[r].handled /\ req'[r].handled =>
                 req[r].pc = "next" /\ req[r].user \in 1..Len(users)
       /\ <<projects, todos>>' # <<projects, todos>> =>
             \E r \in Reqs : /\ req[r].pc = "next" /\ req'[r].handled
                              /\ req[r].user \in 1..Len(users)]_vars

\* A request whose verified token names no stored User was answered 404
\* without its handler running, while the store held documents.
C5_Witness ==
    \E r \in Reqs :
        /\ req[r].pc = "done" /\ req[r].op \in Routes
        /\ req[r].token = StaleToken /\ req[r].status = 404
        /\ ~req[r].handled
        /\ todos # <<>> /\ projects # <<>>

C9_CreateThenList ==
    [][\A r \in Reqs :
          AtHandler(r, "GET /todos") /\ Responded(r) /\ lastCreated.id # 0
            /\ lastCreated.user = req[r].user =>
            /\ GetTodos(r, lastCreated.project) =>
              /\ req'[r].status = 200
              /\ [id |-> lastCreated.id,
                  title |-> lastCreated.body.title,
                  description |-> lastCreated.body.description,
                  priority |-> lastCreated.body.priority,
                  status |-> lastCreated.body.status,
                  project |-> lastCreated.project,
                  user |-> req[r].user] \in req'[r].docs]_vars

\* The actor listed the project right after creating a Todo with a
\* description under it, and got that Todo back.
C9_Witness ==
    \E r \in Reqs :
        /\ Done(r, "GET /todos", 200)
        /\ lastCreated.id # 0 /\ lastCreated.user = req[r].user
        /\ lastCreated.body.description # NoStr
        /\ \E d \in req[r].docs : d.id = lastCreated.id
\* C10: the token a successful login or register of user u returns at time t
\* carries u's id and the expiry t + 1 hour; the Auth Gate resolves it to u at
\* every time before its expiry and rejects it as invalid after its expiry;
\* no step takes an issued token back or changes it.
C10_TokenLifetime ==
    [][/\ \A r \in Reqs :
             req[r].op \in {"register", "login"} /\ Responded(r)
               /\ req'[r].status \in {200, 201} =>
                 LET tk == req'[r].out
                 IN /\ tk.kind = "jwt" /\ tk \in issued'
                    /\ tk.id \in 1..Len(users')
                    /\ users'[tk.id].email = req[r].email
                    /\ bcryptCompare(req[r].password, users'[tk.id].password)
                    /\ tk.iat = now /\ tk.exp = now + ExpiresIn
       /\ \A r \in Reqs :
             Arrived(r) /\ req'[r].token \in issued =>
                 LET tk == req'[r].token
                 IN /\ now < tk.exp => req'[r].pc = "next" /\ req'[r].user = tk.id
                    /\ now > tk.exp => Rejected(r, 401, "Token is not valid")
       /\ issued \subseteq issued']_vars

\* Of two tokens issued, one was presented after its expiry and rejected, the
\* other before its expiry and resolved to its user, who differs from the
\* first token's.
C10_Witness ==
    \E r1, r2 \in Reqs :
        /\ req[r1].pc = "done" /\ req[r1].op = "GET /projects"
        /\ req[r1].token \in issued /\ now > req[r1].token.exp
        /\ req[r1].status = 401
        /\ req[r2].pc = "done" /\ req[r2].op = "GET /projects"
        /\ req[r2].token \in issued /\ now < req[r2].token.exp
        /\ req[r2].status = 200 /\ req[r2].user = req[r2].token.id
        /\ req[r2].token.id # req[r1].token.id
====
